---- MODULE Spec2Model ----
(***************************************************************************)
(* Model of src/script.js: the Draggable gesture class and the Slidy      *)
(* range slider (value engine, construction checks, propagation to the    *)
(* text inputs and the style hooks).                                      *)
(*                                                                         *)
(* JavaScript values that reach Slidy.values are numbers or strings (the  *)
(* text listener submits the filtered string itself).  A value is a       *)
(* record [t, n, d, s]: t = "num" is the number n/d, t = "str" is the     *)
(* string s, a sequence of one-character strings.  Arithmetic is exact    *)
(* (rationals); IEEE rounding error of the doubles is not modelled.       *)
(***************************************************************************)
EXTENDS Integers, Sequences, FiniteSets, TLC

\* ------------------------------------------------------------------ bounds
\* longest text a user types into a text field
MaxText == 2
\* most requestAnimationFrame callbacks queued between two frames
MaxPending == 2

\* characters a user types: two digits and one non-digit
TypedChars == {"1", "5", "a"}
\* pointer pageX of a mousemove, rendered width of a handle, of the track
PageXs == {30}
ElemWidths == {0, 18}
TrackWidths == {20}

\* ------------------------------------------------- JavaScript value layer
Digits == <<"0", "1", "2", "3", "4", "5", "6", "7", "8", "9">>

DigitChars == {Digits[i] : i \in 1..10}

DigitVal(c) == CHOOSE i \in 0..9 : Digits[i + 1] = c

\* UTF-16 code unit order of the characters that occur: "-" < digits < "a"
CharCode(c) == IF c \in DigitChars THEN 48 + DigitVal(c) ELSE IF c = "-" THEN 45 ELSE 97

Num(n) == [t |-> "num", n |-> n, d |-> 1, s |-> <<>>]

Rat(n, d) == [t |-> "num", n |-> n, d |-> d, s |-> <<>>]

Str(s) == [t |-> "str", n |-> 0, d |-> 1, s |-> s]

\* Number(s) for a string of digits; Number("") is 0
RECURSIVE StrToNum(_)
StrToNum(s) == IF s = <<>> THEN 0 ELSE 10 * StrToNum(SubSeq(s, 1, Len(s) - 1)) + DigitVal(s[Len(s)])

\* String(n) for an integer n
RECURSIVE NumToStr(_)
NumToStr(n) == IF n < 0 THEN <<"-">> \o NumToStr(0 - n) ELSE IF n < 10 THEN <<Digits[n + 1]>> ELSE NumToStr(n \div 10) \o <<Digits[(n % 10) + 1]>>

\* ToNumber(v) as numerator and denominator (denominator > 0)
NumOf(v) == IF v.t = "str" THEN StrToNum(v.s) ELSE v.n

DenOf(v) == IF v.t = "str" THEN 1 ELSE v.d

\* ToString(v); the numbers converted are integers
ToStr(v) == IF v.t = "str" THEN v.s ELSE NumToStr(v.n \div v.d)

\* a < b on strings: code-unit lexicographic order
RECURSIVE StrLess(_, _)
StrLess(a, b) == IF b = <<>> THEN FALSE ELSE IF a = <<>> THEN TRUE ELSE IF a[1] # b[1] THEN CharCode(a[1]) < CharCode(b[1]) ELSE StrLess(Tail(a), Tail(b))

\* the JavaScript relational a < b: two strings compare as strings,
\* anything else compares as numbers
Less(a, b) == IF a.t = "str" /\ b.t = "str" THEN StrLess(a.s, b.s) ELSE NumOf(a) * DenOf(b) < NumOf(b) * DenOf(a)

\* the JavaScript a + b: concatenation as soon as one operand is a string
Plus(a, b) == IF a.t = "str" \/ b.t = "str" THEN Str(ToStr(a) \o ToStr(b)) ELSE Rat(a.n * b.d + b.n * a.d, a.d * b.d)

\* the JavaScript a - b: always numeric
Minus(a, b) == Rat(NumOf(a) * DenOf(b) - NumOf(b) * DenOf(a), DenOf(a) * DenOf(b))

\* Math.round(n / d) for d > 0: nearest integer, ties towards +infinity
Round(n, d) == (2 * n + d) \div (2 * d)

\* numeric comparison of two values, whatever their type
NumLeq(a, b) == NumOf(a) * DenOf(b) <= NumOf(b) * DenOf(a)

NumEq(a, b) == NumOf(a) * DenOf(b) = NumOf(b) * DenOf(a)

\* ------------------------------------------------------ Slidy: options
\* an option that is not supplied is <<>>, a supplied one is <<value>>
Absent == <<>>

\* options.defaultValue: an array of numbers, or something that is no array
Arr(v) == [arr |-> TRUE, v |-> v]

NotArr == [arr |-> FALSE, v |-> <<>>]

Opt(mn, mx, st, sc, dv) == [min |-> mn, max |-> mx, step |-> st, segmentsCount |-> sc, defaultValue |-> dv]

\* option objects that pass the constructor's checks ...
GoodOptions == {Opt(<<0>>, <<20>>, <<5>>, Absent, <<Arr(<<10>>)>>), Opt(<<0>>, <<20>>, <<5>>, <<3>>, <<Arr(<<5, 15>>)>>), Opt(<<2>>, <<13>>, <<5>>, Absent, <<Arr(<<13>>)>>), Opt(<<2>>, <<13>>, <<5>>, <<2>>, <<Arr(<<5, 10>>)>>), Opt(<<200>>, Absent, Absent, Absent, Absent)}

\* ... and option objects that one of the checks rejects
BadOptions == {Opt(<<0>>, <<20>>, Absent, Absent, <<NotArr>>), Opt(<<0>>, <<20>>, Absent, Absent, <<Arr(<<>>)>>), Opt(<<0>>, <<20>>, Absent, Absent, <<Arr(<<1, 2, 3>>)>>), Opt(<<20>>, <<20>>, Absent, Absent, Absent), Opt(<<20>>, <<0>>, Absent, Absent, Absent), Opt(<<0>>, <<20>>, Absent, <<1>>, Absent)}

OptionSets == GoodOptions \cup BadOptions

\* the constructor's four checks, in order; "" when none throws
ConstructorError(selector, opts) ==
  IF ~selector THEN "Slidy: containerSelector is required"
  ELSE IF \/ (opts.defaultValue # Absent /\ ~opts.defaultValue[1].arr)
          \/ (opts.defaultValue # Absent /\ Len(opts.defaultValue[1].v) < 1)
          \/ (opts.defaultValue # Absent /\ Len(opts.defaultValue[1].v) > 2)
       THEN "Slidy: defaultValue must be an array of length 1 or 2"
  ELSE IF opts.min # Absent /\ opts.max # Absent /\ opts.min[1] >= opts.max[1]
       THEN "Slidy: min must be less than max"
  ELSE IF opts.segmentsCount # Absent /\ opts.segmentsCount[1] < 2
       THEN "Slidy: segmentsCount must be greater than 2"
  ELSE ""

\* x || dflt
OrDefault(x, dflt) == IF x = Absent \/ x[1] = 0 THEN dflt ELSE x[1]

\* { key: x || dflt, ...options }: a supplied key overrides the default
Spread(x, dflt) == IF x # Absent THEN x[1] ELSE OrDefault(x, dflt)

ResolveOptions(opts) == [min |-> Spread(opts.min, 0), max |-> Spread(opts.max, 100), step |-> Spread(opts.step, 1), segmentsCount |-> opts.segmentsCount, defaultValue |-> opts.defaultValue]

\* options.defaultValue || [0]
InitialValues(opts) == IF opts.defaultValue = Absent THEN <<Num(0)>> ELSE [i \in 1..Len(opts.defaultValue[1].v) |-> Num(opts.defaultValue[1].v[i])]

\* ------------------------------------------------- Slidy: value engine
\* #normalizeMinMax; a value that is kept is returned as it is, string or
\* number (a kept number is an integer, written with denominator 1)
NormalizeMinMax(value, o) ==
  IF Less(value, Num(o.min)) THEN Num(o.min)
  ELSE IF Less(Num(o.max), value) THEN Num(o.max)
  ELSE IF NumOf(value) % (DenOf(value) * o.step) = 0
       THEN (IF value.t = "str" THEN value ELSE Num(value.n \div value.d))
       ELSE Num(Round(NumOf(value), DenOf(value) * o.step) * o.step)

\* a style hook: unset, or the percentage n/d
Unset == [set |-> FALSE, n |-> 0, d |-> 1]

Pct(n, d) == [set |-> TRUE, n |-> n, d |-> d]

\* ((value - min) / (max - min)) * 100
Percent(value, o) == Pct((NumOf(value) - o.min * DenOf(value)) * 100, (o.max - o.min) * DenOf(value))

\* #updateTrack without the write to the lower handle's style hook: the
\* handle keeps whatever updatePosition wrote
UpdateTrackKeepsHandle(vals, o, view) ==
  LET minPercent == Percent(vals[1], o)
      single == [view EXCEPT !.trackMinLeft = Pct(0, 1), !.trackMaxLeft = minPercent]
  IN  IF Len(vals) = 2
      THEN [single EXCEPT !.maxLeft = Percent(vals[2], o), !.trackMinLeft = minPercent, !.trackMaxLeft = Percent(vals[2], o)]
      ELSE single

\* #updateTrack: writes the handles' and the track's style hooks
UpdateTrack(vals, o, view) ==
  LET minPercent == Percent(vals[1], o)
      single == [view EXCEPT !.minLeft = minPercent, !.trackMinLeft = Pct(0, 1), !.trackMaxLeft = minPercent]
  IN  IF Len(vals) = 2
      THEN [single EXCEPT !.maxLeft = Percent(vals[2], o), !.trackMinLeft = minPercent, !.trackMaxLeft = Percent(vals[2], o)]
      ELSE single

\* the ordering step with the shift() but without the push(): the removed
\* lower value is lost
SwapDropsLower(vals) == IF Len(vals) = 2 /\ Less(vals[2], vals[1]) THEN <<vals[2]>> ELSE vals

\* the ordering step of updateValues: shift() then push()
SwapIfInverted(vals) == IF Len(vals) = 2 /\ Less(vals[2], vals[1]) THEN <<vals[2], vals[1]>> ELSE vals

\* updateValues with the text inputs rewritten before the ordering step
UpdateValuesInputsFirst(vals, o, view) ==
  LET mapped == [i \in 1..Len(vals) |-> NormalizeMinMax(vals[i], o)]
      ordered == SwapIfInverted(mapped)
      withMin == [view EXCEPT !.minInput = ToStr(mapped[1])]
      withMax == IF Len(mapped) = 2 THEN [withMin EXCEPT !.maxInput = ToStr(mapped[2])] ELSE withMin
  IN  [values |-> ordered, view |-> UpdateTrack(ordered, o, withMax)]

\* updateValues: normalize every slot, order the pair, rewrite the text
\* inputs, update the track
UpdateValues(vals, o, view) ==
  LET mapped == [i \in 1..Len(vals) |-> NormalizeMinMax(vals[i], o)]
      ordered == SwapIfInverted(mapped)
      withMin == [view EXCEPT !.minInput = ToStr(ordered[1])]
      withMax == IF Len(ordered) = 2 THEN [withMin EXCEPT !.maxInput = ToStr(ordered[2])] ELSE withMin
  IN  [values |-> ordered, view |-> UpdateTrack(ordered, o, withMax)]

\* #updateMin
UpdateMin(newValue, vals, o, view) == UpdateValues([vals EXCEPT ![1] = newValue], o, view)

\* #updateMax
UpdateMax(newValue, vals, o, view) == IF Len(vals) # 2 THEN [values |-> vals, view |-> view] ELSE UpdateValues([vals EXCEPT ![2] = newValue], o, view)

\* the isMax argument #init passes to #createInput for each text field
\* (both calls pass none) and to #createButton for each handle
InputIsMax(field) == FALSE

ButtonIsMax(h) == h = "max"

\* the slot a handler writes
Submit(isMax, newValue, vals, o, view) == IF isMax THEN UpdateMax(newValue, vals, o, view) ELSE UpdateMin(newValue, vals, o, view)

\* the boundary values of the segment buttons #init creates:
\* for (i = min; i <= max; i += (max - min) / (segmentsCount - 1))
Segments(o) ==
  IF o.segmentsCount = Absent \/ o.segmentsCount[1] = 0 \/ o.min >= o.max THEN {}
  ELSE LET c == o.segmentsCount[1] IN {Rat(o.min * (c - 1) + k * (o.max - o.min), c - 1) : k \in 0..(c - 1)}

\* the slot the click listener of the segment with boundary i writes:
\* the lower one when i < values[1] or in single mode
SegmentIsMax(i, vals) == Len(vals) = 2 /\ ~Less(i, vals[2])

\* the click listener of the segment with boundary i
SegmentClicked(i, vals, o, view) == Submit(SegmentIsMax(i, vals), i, vals, o, view)

ArrowKeys == {"ArrowDown", "ArrowLeft", "ArrowUp", "ArrowRight"}

\* the value an arrow key submits: this.values[k] - step or
\* this.values[k] + step
KeyValue(isMax, key, vals, o) ==
  LET cur == IF isMax THEN vals[2] ELSE vals[1] IN
  IF key \in {"ArrowDown", "ArrowLeft"} THEN Minus(cur, Num(o.step)) ELSE Plus(cur, Num(o.step))

\* the keydown listener of a handle; other keys do nothing
KeyPressed(isMax, key, vals, o, view) ==
  IF key \in ArrowKeys THEN Submit(isMax, KeyValue(isMax, key, vals, o), vals, o, view)
  ELSE [values |-> vals, view |-> view]

\* e.target.value.replace(/[^0-9]/g, '')
StripNonDigits(text) == SelectSeq(text, LAMBDA c : c \in DigitChars)

\* the value a text edit submits: the filtered string, not a number
TextValue(text) == Str(StripNonDigits(text))

\* the input listener of a text field
TextEdited(isMax, text, vals, o, view) == Submit(isMax, TextValue(text), vals, o, view)

\* the value the Draggable callback submits:
\* Math.round(min + (max - min) * (currentPercentage / 100)), where
\* currentPercentage is (x / w) * 100
DragValue(x, w, o) == Num(Round(o.min * w + (o.max - o.min) * x, w))

\* the Draggable callback of a handle
DragCallback(isMax, x, w, vals, o, view) == Submit(isMax, DragValue(x, w, o), vals, o, view)

\* Draggable.updatePosition of handle h: raw percentage to the handle's
\* style, then the callback
UpdatePosition(h, x, w, vals, o, view) ==
  LET raw == Pct(x * 100, w)
      styled == IF h = "max" THEN [view EXCEPT !.maxLeft = raw] ELSE [view EXCEPT !.minLeft = raw]
  IN  DragCallback(ButtonIsMax(h), x, w, vals, o, styled)

\* the relative offset with the handle's width added instead of subtracted
MoveOffsetAddsWidth(pageX, width) == pageX + width

\* #handleMouseMove past the isDragging guard: the relative offset
MoveOffset(pageX, width) == pageX - width

\* one rendering frame: every queued callback runs, in the order queued
RECURSIVE RunFrame(_, _, _, _, _, _)
RunFrame(queue, cx, w, vals, o, view) ==
  IF queue = <<>> THEN [values |-> vals, view |-> view]
  ELSE LET r == UpdatePosition(Head(queue), cx[Head(queue)], w, vals, o, view)
       IN  RunFrame(Tail(queue), cx, w, r.values, o, r.view)

\* ------------------------------------------------------------- state
VARIABLES phase, error, options, values, minInput, maxInput, minLeft, maxLeft, trackMinLeft, trackMaxLeft, isDragging, currentX, raf

vars == <<phase, error, options, values, minInput, maxInput, minLeft, maxLeft, trackMinLeft, trackMaxLeft, isDragging, currentX, raf>>

viewVars == <<minInput, maxInput, minLeft, maxLeft, trackMinLeft, trackMaxLeft>>

dragVars == <<isDragging, currentX, raf>>

HandleNames == {"min", "max"}

\* the handles (and text fields) #init builds
Handles == IF Len(values) = 2 THEN {"min", "max"} ELSE {"min"}

View == [minInput |-> minInput, maxInput |-> maxInput, minLeft |-> minLeft, maxLeft |-> maxLeft, trackMinLeft |-> trackMinLeft, trackMaxLeft |-> trackMaxLeft]

EmptyView == [minInput |-> <<>>, maxInput |-> <<>>, minLeft |-> Unset, maxLeft |-> Unset, trackMinLeft |-> Unset, trackMaxLeft |-> Unset]

\* store the result r of a handler
Publish(r) ==
  /\ values' = r.values
  /\ minInput' = r.view.minInput
  /\ maxInput' = r.view.maxInput
  /\ minLeft' = r.view.minLeft
  /\ maxLeft' = r.view.maxLeft
  /\ trackMinLeft' = r.view.trackMinLeft
  /\ trackMaxLeft' = r.view.trackMaxLeft

Count(h, q) == Cardinality({i \in 1..Len(q) : q[i] = h})

Texts == UNION {[1..n -> TypedChars] : n \in 0..MaxText}

Keys == ArrowKeys \cup {"Enter"}

\* nothing constructed yet
Init ==
  /\ phase = "new"
  /\ error = ""
  /\ options = [min |-> 0, max |-> 0, step |-> 0, segmentsCount |-> Absent, defaultValue |-> Absent]
  /\ values = <<>>
  /\ minInput = <<>>
  /\ maxInput = <<>>
  /\ minLeft = Unset
  /\ maxLeft = Unset
  /\ trackMinLeft = Unset
  /\ trackMaxLeft = Unset
  /\ isDragging = [h \in HandleNames |-> FALSE]
  /\ currentX = [h \in HandleNames |-> 0]
  /\ raf = <<>>

\* new Slidy(selector, opts): the checks, then #init and updateValues
Construct(selector, opts) ==
  /\ phase = "new"
  /\ LET e == ConstructorError(selector, opts) IN
     IF e # ""
     THEN /\ phase' = "error"
          /\ error' = e
          /\ UNCHANGED <<options, values, viewVars>>
     ELSE /\ phase' = "built"
          /\ error' = ""
          /\ options' = ResolveOptions(opts)
          /\ Publish(UpdateValues(InitialValues(opts), ResolveOptions(opts), EmptyView))
  /\ UNCHANGED dragVars

KeyDown(h, key) ==
  /\ phase = "built"
  /\ h \in Handles
  /\ Publish(KeyPressed(ButtonIsMax(h), key, values, options, View))
  /\ UNCHANGED <<phase, error, options, dragVars>>

TextInput(field, text) ==
  /\ phase = "built"
  /\ field \in Handles
  /\ Publish(TextEdited(InputIsMax(field), text, values, options, View))
  /\ UNCHANGED <<phase, error, options, dragVars>>

SegmentClick(i) ==
  /\ phase = "built"
  /\ i \in Segments(options)
  /\ Publish(SegmentClicked(i, values, options, View))
  /\ UNCHANGED <<phase, error, options, dragVars>>

\* Draggable.#handleMouseDown on handle h
MouseDown(h) ==
  /\ phase = "built"
  /\ h \in Handles
  /\ isDragging' = [isDragging EXCEPT ![h] = TRUE]
  /\ UNCHANGED <<phase, error, options, values, viewVars, currentX, raf>>

\* a mousemove on the window: #handleMouseMove of every Draggable, in the
\* order the handles were created
MouseMove(pageX, width) ==
  /\ phase = "built"
  /\ LET moved == {h \in Handles : isDragging[h]}
         queued == (IF "min" \in moved THEN <<"min">> ELSE <<>>) \o (IF "max" \in moved THEN <<"max">> ELSE <<>>)
     IN  /\ Len(raf) + Len(queued) <= MaxPending
         /\ currentX' = [h \in HandleNames |-> IF h \in moved THEN MoveOffset(pageX, width) ELSE currentX[h]]
         /\ raf' = raf \o queued
  /\ UNCHANGED <<phase, error, options, values, viewVars, isDragging>>

\* a mouseup on the window: #handleMouseUp of every Draggable
MouseUp ==
  /\ phase = "built"
  /\ isDragging' = [h \in HandleNames |-> FALSE]
  /\ UNCHANGED <<phase, error, options, values, viewVars, currentX, raf>>

\* the next rendering frame runs the queued updatePosition callbacks
Frame(w) ==
  /\ phase = "built"
  /\ raf # <<>>
  /\ Publish(RunFrame(raf, currentX, w, values, options, View))
  /\ raf' = <<>>
  /\ UNCHANGED <<phase, error, options, isDragging, currentX>>

Next ==
  \/ \E selector \in BOOLEAN, opts \in OptionSets : Construct(selector, opts)
  \/ \E h \in HandleNames, key \in Keys : KeyDown(h, key)
  \/ \E field \in HandleNames, text \in Texts : TextInput(field, text)
  \/ \E i \in Segments(options) : SegmentClick(i)
  \/ \E h \in HandleNames : MouseDown(h)
  \/ \E pageX \in PageXs, width \in ElemWidths : MouseMove(pageX, width)
  \/ MouseUp
  \/ \E w \in TrackWidths : Frame(w)

Spec == Init /\ [][Next]_vars

\* ------------------------------------------------------------- typing
TypeOK ==
  /\ phase \in {"new", "built", "error"}
  /\ Len(values) \in 0..2
  /\ \A i \in 1..Len(values) : values[i].t \in {"num", "str"} /\ values[i].d = 1

\* ------------------------------------------------------------ properties
Built == phase = "built"

\* a configuration the specification allows: min < max and step > 0
ValidConfig == options.min < options.max /\ options.step > 0

RangeMode == Built /\ Len(values) = 2

\* two style hooks hold the same percentage
SamePercent(a, b) == a.set /\ b.set /\ a.n * b.d = b.n * a.d

\* what the handlers can submit in the current state: the slot (isMax) and
\* the proposed value
KeySubmissions == {[isMax |-> ButtonIsMax(h), v |-> KeyValue(ButtonIsMax(h), k, values, options)] : h \in Handles, k \in ArrowKeys}

TextSubmissions == {[isMax |-> InputIsMax(f), v |-> TextValue(t)] : f \in Handles, t \in Texts}

SegmentSubmissions == {[isMax |-> SegmentIsMax(i, values), v |-> i] : i \in Segments(options)}

DragSubmissions == {[isMax |-> ButtonIsMax(h), v |-> DragValue(x[1] - x[2], x[3], options)] : h \in Handles, x \in PageXs \X ElemWidths \X TrackWidths}

Submissions == KeySubmissions \cup TextSubmissions \cup SegmentSubmissions \cup DragSubmissions

\* C1: in range mode values[0] <= values[1], compared as numbers, in every
\* reachable state
C1_RangeOrdered == (RangeMode /\ ValidConfig) => NumLeq(values[1], values[2])

\* C2: with min < max and step > 0 every stored value lies in [min, max]
C2_ValuesInBounds == (Built /\ ValidConfig) => \A i \in 1..Len(values) : NumLeq(Num(options.min), values[i]) /\ NumLeq(values[i], Num(options.max))

\* C3: every stored value is a multiple of step, also one produced by
\* clamping to min or to max
C3_StepAligned == (Built /\ ValidConfig) => \A i \in 1..Len(values) : NumOf(values[i]) % options.step = 0

\* C4: normalization is idempotent on the stored (already normalized)
\* values, so re-submitting the current values changes nothing
C4_Idempotent == (Built /\ ValidConfig) => \A i \in 1..Len(values) : NumEq(NormalizeMinMax(values[i], options), values[i])

\* C5: in range mode a submission whose normalized value passes the other
\* slot's value yields the other slot's value and the normalized proposed
\* value, in ascending order
C5_SwapAsPair ==
  (RangeMode /\ ValidConfig) =>
    \A sub \in Submissions :
      LET np == NormalizeMinMax(sub.v, options)
          other == IF sub.isMax THEN values[1] ELSE values[2]
          after == Submit(sub.isMax, sub.v, values, options, View).values
          inverts == IF sub.isMax THEN ~NumLeq(other, np) ELSE ~NumLeq(np, other)
          lower == IF sub.isMax THEN np ELSE other
          upper == IF sub.isMax THEN other ELSE np
      IN  inverts => NumEq(after[1], lower) /\ NumEq(after[2], upper)

\* C6: an arrow key submits exactly the handle's current numeric value
\* minus step (down, left) or plus step (up, right)
C6_KeyStep ==
  Built =>
    \A h \in Handles :
      LET cur == IF ButtonIsMax(h) THEN values[2] ELSE values[1] IN
      /\ \A k \in {"ArrowDown", "ArrowLeft"} : NumEq(KeyValue(ButtonIsMax(h), k, values, options), Num(NumOf(cur) - options.step))
      /\ \A k \in {"ArrowUp", "ArrowRight"} : NumEq(KeyValue(ButtonIsMax(h), k, values, options), Num(NumOf(cur) + options.step))

\* C7: at most one position update is pending per gesture, so a frame
\* delivers at most one callback per gesture
C7_AtMostOnePending == \A h \in HandleNames : Count(h, raf) <= 1

\* C8: a frame delivers a gesture's callback only while that gesture is
\* dragging: none after a release until the next press
C8_NoCallbackAfterRelease == [][(raf # <<>> /\ raf' = <<>>) => \A i \in 1..Len(raf) : isDragging[raf[i]]]_vars

\* C9: a construction that fails builds nothing, and a constructed slider
\* has min < max and one or two values
C9_ConstructionChecked ==
  /\ phase = "error" => (values = <<>> /\ View = EmptyView)
  /\ Built => (options.min < options.max /\ Len(values) \in {1, 2})

\* C10: each handle's style holds the percentage of its stored value, and
\* the track fill runs from 0% (single mode) or the lower handle (range
\* mode) to the (upper) handle
C10_VisualConsistency ==
  Built =>
    /\ SamePercent(minLeft, Percent(values[1], options))
    /\ Len(values) = 1 => (SamePercent(trackMinLeft, Pct(0, 1)) /\ SamePercent(trackMaxLeft, Percent(values[1], options)))
    /\ Len(values) = 2 =>
         /\ SamePercent(maxLeft, Percent(values[2], options))
         /\ SamePercent(trackMinLeft, Percent(values[1], options))
         /\ SamePercent(trackMaxLeft, Percent(values[2], options))

\* a frame has delivered a drag of the lower handle whose raw percentage
\* (60%) differs from the percentage of the value stored for it (50%)
C10_Witness ==
  /\ Built
  /\ raf = <<>>
  /\ currentX["min"] = 12
  /\ options.min = 0 /\ options.max = 20
  /\ NumOf(values[1]) = 10
  /\ SamePercent(minLeft, Pct(50, 1))

\* an integer clamped to [min, max], and the multiple of step nearest to an
\* integer
Clamp(n, o) == IF n < o.min THEN o.min ELSE IF n > o.max THEN o.max ELSE n

NearestMultiple(n, step) == Round(n, step) * step

\* the pointer positions, handle widths and track widths of a drag
DragInputs == PageXs \X ElemWidths \X TrackWidths

\* C11: a drag reporting percentage p submits round(min + (max - min) * p /
\* 100) to the dragged handle's slot, and what is stored for it is that
\* integer clamped to [min, max] and rounded to the nearest multiple of step
C11_DragStored ==
  (Built /\ ValidConfig) =>
    \A h \in Handles, x \in DragInputs :
      LET cx == MoveOffset(x[1], x[2])
          raw == Round(options.min * 100 * x[3] + (options.max - options.min) * (cx * 100), 100 * x[3])
          after == DragCallback(ButtonIsMax(h), cx, x[3], values, options, View).values
      IN  /\ ButtonIsMax(h) = (h = "max")
          /\ DragValue(cx, x[3], options) = Num(raw)
          /\ \E i \in 1..Len(after) : NumEq(after[i], Num(NearestMultiple(Clamp(raw, options), options.step)))

\* C12: a segment click goes to slot 0 in single mode; in range mode to
\* slot 0 when the boundary is numerically below the upper value and to
\* slot 1 otherwise, and an ordered pair is then still ordered as it
\* stands, without a swap
C12_SegmentRouting ==
  (Built /\ ValidConfig) =>
    \A i \in Segments(options) :
      LET toMax == SegmentIsMax(i, values)
          slot == IF toMax THEN 2 ELSE 1
          mapped == [k \in 1..Len(values) |-> NormalizeMinMax(IF k = slot THEN i ELSE values[k], options)]
          after == SegmentClicked(i, values, options, View).values
      IN  /\ Len(values) = 1 => ~toMax
          /\ Len(values) = 2 =>
               /\ toMax = ~(i.n < NumOf(values[2]) * i.d)
               /\ NumLeq(values[1], values[2]) => (after = mapped /\ NumLeq(after[1], after[2]))

\* the length of the defaultValue the slider was constructed with ([0]
\* when none was supplied)
DefaultLength == IF options.defaultValue = Absent THEN 1 ELSE Len(options.defaultValue[1].v)

\* C13: the number of values is the length of defaultValue in every
\* reachable state, and in single mode a submission to the upper slot
\* changes nothing
C13_ModeFixed ==
  Built =>
    /\ Len(values) = DefaultLength
    /\ Len(values) = 1 => \A sub \in Submissions : UpdateMax(sub.v, values, options, View) = [values |-> values, view |-> View]

\* range mode after a swap: the upper slot holds a text-submitted value,
\* and text is only ever submitted to the lower slot
C13_Witness == RangeMode /\ DefaultLength = 2 /\ values[2].t = "str"

\* C14: a text edit whose filtered text is empty stores the number
\* normalize(0)
C14_EmptyTextIsZero ==
  (Built /\ ValidConfig) =>
    \A f \in Handles, t \in Texts :
      LET after == TextEdited(InputIsMax(f), t, values, options, View).values
      IN  StripNonDigits(t) = <<>> => \E i \in 1..Len(after) : after[i] = NormalizeMinMax(Num(0), options)

\* C15: a keyboard decrement on a handle whose value is min leaves that
\* handle at min, and an increment on a handle whose value is max leaves it
\* at max
C15_KeyClampsAtBounds ==
  (Built /\ ValidConfig) =>
    \A h \in Handles :
      LET slot == IF ButtonIsMax(h) THEN 2 ELSE 1
          down == KeyPressed(ButtonIsMax(h), "ArrowDown", values, options, View).values
          up == KeyPressed(ButtonIsMax(h), "ArrowUp", values, options, View).values
      IN  /\ NumEq(values[slot], Num(options.min)) => NumEq(down[slot], Num(options.min))
          /\ NumEq(values[slot], Num(options.max)) => NumEq(up[slot], Num(options.max))

\* C16: every element of values is a number, never a string
C16_ValuesAreNumbers == Built => \A i \in 1..Len(values) : values[i].t = "num"

\* C17: the lower text input shows values[0] and, in range mode, the upper
\* text input shows values[1]
C17_InputsShowValues ==
  Built =>
    /\ minInput = ToStr(values[1])
    /\ Len(values) = 2 => maxInput = ToStr(values[2])

\* a swap has moved a typed value into the upper slot, and the upper text
\* input shows it
C17_Witness == RangeMode /\ values[2].t = "str" /\ values[2].s # <<>> /\ maxInput = values[2].s /\ minInput = ToStr(values[1])

\* the offsets C18 allows: pageX minus the width, and 0 for a handle of
\* width 0
ClaimedOffsets == {IF x[2] = 0 THEN 0 ELSE x[1] - x[2] : x \in PageXs \X ElemWidths}

\* C18 as stated: every offset of a gesture is pageX minus the handle's
\* width, and 0 when the handle has no width
C18_ZeroWidthOffsetZero == Built => \A h \in Handles : currentX[h] \in ClaimedOffsets \cup {0}

\* C18 as amended: a pointer-move sets the offset of every dragging gesture
\* to pageX minus the handle's width, which is pageX itself for a handle of
\* width 0, and leaves the other gestures' offsets alone
C18_OffsetIsPageXMinusWidth ==
  [][\A h \in HandleNames :
       IF h \in Handles /\ isDragging[h] /\ Len(raf') > Len(raf)
       THEN \E x \in PageXs \X ElemWidths : currentX'[h] = x[1] - x[2] /\ (x[2] = 0 => currentX'[h] = x[1])
       ELSE currentX'[h] = currentX[h]]_vars

\* a move over a handle of width 0 is pending: offset 30 is pageX 30 itself
\* (30 is not pageX minus a non-zero width for any input)
C18_Witness == Built /\ isDragging["min"] /\ raf # <<>> /\ currentX["min"] = 30 /\ 30 \notin ClaimedOffsets

\* C19: in range mode an edit of the upper text field writes the upper
\* slot and an edit of the lower text field writes the lower slot
C19_UpperFieldWritesUpperSlot ==
  RangeMode =>
    \A t \in Texts :
      /\ TextEdited(InputIsMax("max"), t, values, options, View).values = UpdateMax(TextValue(t), values, options, View).values
      /\ TextEdited(InputIsMax("min"), t, values, options, View).values = UpdateMin(TextValue(t), values, options, View).values

\* C20: in range mode the values after a submission are the normalized
\* proposed value and the other slot's previous value, in ascending order
C20_OtherSlotKept ==
  (RangeMode /\ ValidConfig) =>
    \A sub \in Submissions :
      LET np == NormalizeMinMax(sub.v, options)
          other == IF sub.isMax THEN values[1] ELSE values[2]
          after == Submit(sub.isMax, sub.v, values, options, View).values
      IN  IF NumLeq(np, other)
          THEN NumEq(after[1], np) /\ NumEq(after[2], other)
          ELSE NumEq(after[1], other) /\ NumEq(after[2], np)

====
